---- MODULE Spec2Model ----
(***************************************************************************)
(* Approval routing and decision engine of the expense manager.            *)
(*                                                                         *)
(* The persistent state is the three MongoDB collections the engine works  *)
(* on: the approval rules, the expenses (with their embedded approval      *)
(* steps) and the users (deleted, never added).  A handler is one action,  *)
(* except that a handler that loads an expense, changes it in memory and   *)
(* then awaits expense.save() is split at that await: the requests run     *)
(* concurrently and other handlers run between the load and the save.      *)
(***************************************************************************)
EXTENDS Integers, Sequences, FiniteSets, TLC

\* ------------------------------------------------------------------ bounds
MaxRules == 2       \* rules ever created
MaxExpenses == 1    \* expenses ever created
MaxTime == 5        \* the clock's last value: MaxTime - 1 requests stamp a date
MaxInflight == 2    \* requests between their load and their save

\* ------------------------------------------------------- values and users
NoUser == "none"    \* null / undefined ObjectId
NoText == "undef"   \* undefined String
NoDate == 0         \* undefined Date; set dates are the clock values 1, 2, ...

Companies == {"c1", "c2"}
Categories == {"travel", "food"}
Departments == {"eng", "ops"}
Amounts == {1, 3}
CommentTexts == {NoText, "no"}
DecisionInputs == {"approved", "rejected", "hold"}

\* The users collection: two employees of c1 (one with a manager, one
\* without), two managers and the admin of c1, and the admin of c2.
UserIds == {"e1", "e2", "m1", "m2", "ad", "x1"}

User ==
  [u \in UserIds |->
     CASE u = "e1" -> [role |-> "employee", company |-> "c1", manager |-> "m1", department |-> "eng"]
       [] u = "e2" -> [role |-> "employee", company |-> "c1", manager |-> NoUser, department |-> "ops"]
       [] u = "m1" -> [role |-> "manager", company |-> "c1", manager |-> NoUser, department |-> "eng"]
       [] u = "m2" -> [role |-> "manager", company |-> "c1", manager |-> NoUser, department |-> "ops"]
       [] u = "ad" -> [role |-> "admin", company |-> "c1", manager |-> NoUser, department |-> "ops"]
       [] u = "x1" -> [role |-> "admin", company |-> "c2", manager |-> NoUser, department |-> "eng"]]

Admins == {u \in UserIds : User[u].role = "admin"}
Submitters == {u \in UserIds : User[u].role = "employee"}
Deciders == {u \in UserIds : User[u].role \in {"manager", "admin"}}

\* --------------------------------------------------- approval rule bodies
RuleBody(lo, hi, cats, depts, apprs, type, pct, specific, reqMgr, prio) ==
  [minAmount |-> lo, maxAmount |-> hi, categories |-> cats, departments |-> depts,
   approvers |-> apprs, type |-> type, percentageRequired |-> pct,
   specificApprovers |-> specific, requireManagerApproval |-> reqMgr,
   priority |-> prio]

Appr(u, s) == [user |-> u, sequence |-> s]

\* The request bodies an admin posts to /approval-rules.
RuleBodies ==
  { RuleBody(0, 3, {}, {}, <<Appr("m1", 0), Appr("m2", 1)>>, "sequential", 0, {}, FALSE, 1),
    RuleBody(0, 3, {}, {}, <<Appr("m1", 0), Appr("m2", 1), Appr("ad", 2)>>, "percentage", 50, {}, FALSE, 5),
    RuleBody(0, 3, {}, {}, <<Appr("m2", 1), Appr("m1", 0)>>, "specific_approver", 0, {"m1"}, FALSE, 2),
    RuleBody(2, 3, {}, {"eng"}, <<Appr("m2", 0), Appr("ad", 0)>>, "hybrid", 50, {"ad"}, TRUE, 2),
    RuleBody(0, 3, {"travel"}, {}, <<Appr("ad", 0)>>, "sequential", 0, {}, TRUE, 9),
    RuleBody(0, 3, {}, {}, <<Appr("m1", 0)>>, "sequential", 0, {}, TRUE, 3),
    RuleBody(0, 3, {}, {}, <<Appr("m2", 0), Appr("m2", 1)>>, "sequential", 0, {}, FALSE, 4),
    RuleBody(0, 3, {}, {}, <<Appr("x1", 0)>>, "sequential", 0, {}, FALSE, 0) }

NoRule ==
  [id |-> 0, company |-> "none", isActive |-> FALSE] @@
  RuleBody(0, 0, {}, {}, <<>>, "sequential", 0, {}, FALSE, 0)

\* ------------------------------------------------------------------ state
VARIABLES
  rules,      \* the ApprovalRule collection: a set of rule documents
  expenses,   \* the Expense collection: expense id (1..n) -> document
  inflight,   \* requests that loaded an expense and have not saved it yet
  now,        \* the clock new Date() reads
  res,        \* the response of the request that completed last
  governing,  \* history: expense id -> the rule determineApprovers used
  overrides,  \* history: ids of the expenses an admin override was saved on
  users       \* the User collection: the ids of the users not deleted so far

vars == <<rules, expenses, inflight, now, res, governing, overrides, users>>

ExpenseIds == DOMAIN expenses

Response(op, code, eid) == [op |-> op, code |-> code, eid |-> eid]

Init ==
  /\ rules = {}
  /\ expenses = <<>>
  /\ inflight = {}
  /\ now = 1
  /\ res = Response("none", 0, 0)
  /\ governing = <<>>
  /\ overrides = {}
  /\ users = UserIds

Range(s) == {s[i] : i \in 1..Len(s)}
Min(S) == CHOOSE x \in S : \A y \in S : x <= y

Tick == now' = now + 1

\* ------------------------------------------------- approval rule handlers
\* User.find({_id: {$in: approverIds}, company, role: {$in: [admin, manager]}})
ValidApprovers(approvers, company) ==
  {u \in users : /\ u \in {a.user : a \in Range(approvers)}
                   /\ User[u].company = company
                   /\ User[u].role \in {"admin", "manager"}}

ApproversAccepted_DistinctIds(approvers, company) ==
  ValidApprovers(approvers, company) = {a.user : a \in Range(approvers)}

\* validApprovers.length !== approverIds.length is the handlers' rejection test
ApproversAccepted(approvers, company) ==
  Cardinality(ValidApprovers(approvers, company)) = Len(approvers)

FreeRuleId == Min({i \in 1..MaxRules : \A r \in rules : r.id # i})

\* new ApprovalRule({company, name, conditions, approvers, rules, priority || 1})
NewRule(id, company, body) ==
  [id |-> id, company |-> company, isActive |-> TRUE] @@
  [body EXCEPT !.priority = IF body.priority = 0 THEN 1 ELSE body.priority]

CreateApprovalRule(admin, body) ==
  /\ now < MaxTime
  /\ Cardinality(rules) < MaxRules
  /\ IF ~ApproversAccepted(body.approvers, User[admin].company)
       THEN /\ res' = Response("createApprovalRule", 400, 0)
            /\ UNCHANGED <<rules, now>>
       ELSE /\ rules' = rules \cup {NewRule(FreeRuleId, User[admin].company, body)}
            /\ res' = Response("createApprovalRule", 201, 0)
            /\ Tick
  /\ UNCHANGED <<expenses, inflight, governing, overrides, users>>

\* The update bodies an admin puts to /approval-rules/:id, one field each.
RuleUpdates ==
  { [field |-> "isActive", isActive |-> FALSE, approvers |-> <<>>],
    [field |-> "isActive", isActive |-> TRUE, approvers |-> <<>>],
    [field |-> "approvers", isActive |-> TRUE, approvers |-> <<Appr("m2", 0)>>],
    [field |-> "approvers", isActive |-> TRUE, approvers |-> <<Appr("e1", 0)>>],
    [field |-> "approvers", isActive |-> TRUE, approvers |-> <<Appr("m1", 0), Appr("m1", 0)>>] }

ApplyRuleUpdate(rule, upd) ==
  IF upd.field = "isActive"
    THEN [rule EXCEPT !.isActive = upd.isActive]
    ELSE [rule EXCEPT !.approvers = upd.approvers]

UpdateApprovalRule(admin, id, upd) ==
  /\ now < MaxTime
  /\ LET found == {r \in rules : r.id = id /\ r.company = User[admin].company} IN
     IF found = {}
       THEN /\ res' = Response("updateApprovalRule", 404, 0)
            /\ UNCHANGED <<rules, now>>
       ELSE LET rule == CHOOSE r \in found : TRUE IN
            IF upd.field = "approvers" /\ ~ApproversAccepted(upd.approvers, User[admin].company)
              THEN /\ res' = Response("updateApprovalRule", 400, 0)
                   /\ UNCHANGED <<rules, now>>
              ELSE /\ rules' = (rules \ {rule}) \cup {ApplyRuleUpdate(rule, upd)}
                   /\ res' = Response("updateApprovalRule", 200, 0)
                   /\ Tick
  /\ UNCHANGED <<expenses, inflight, governing, overrides, users>>

DeleteApprovalRule(admin, id) ==
  /\ now < MaxTime
  /\ LET found == {r \in rules : r.id = id /\ r.company = User[admin].company} IN
     IF found = {}
       THEN /\ res' = Response("deleteApprovalRule", 404, 0)
            /\ UNCHANGED <<rules, now>>
       ELSE /\ rules' = rules \ found
            /\ res' = Response("deleteApprovalRule", 200, 0)
            /\ Tick
  /\ UNCHANGED <<expenses, inflight, governing, overrides, users>>

\* ------------------------------------------------------ determineApprovers
Step(approver, sequence) ==
  [approver |-> approver, sequence |-> sequence, status |-> "pending",
   comments |-> NoText, approvedAt |-> NoDate]

\* ApprovalRule.find({company, isActive: true, minAmount <= v, maxAmount >= v})
FoundRules(store, company, amount) ==
  {r \in store : /\ r.company = company
                 /\ r.isActive
                 /\ r.minAmount <= amount
                 /\ r.maxAmount >= amount}

\* .sort({priority: -1}) then rules[0]: any found rule of the highest
\* priority can come first, the order among equal priorities is the query's.
FirstRules(found) == {r \in found : \A q \in found : q.priority <= r.priority}

\* Array.prototype.sort((a, b) => a.sequence - b.sequence), which is stable:
\* x goes behind every step whose sequence is not greater.
RECURSIVE InsertBySequence(_, _)
InsertBySequence(sorted, x) ==
  IF sorted = <<>> THEN <<x>>
  ELSE IF sorted[Len(sorted)].sequence <= x.sequence THEN Append(sorted, x)
  ELSE Append(InsertBySequence(SubSeq(sorted, 1, Len(sorted) - 1), x), sorted[Len(sorted)])

RECURSIVE SortBySequence(_)
SortBySequence(s) ==
  IF s = <<>> THEN <<>>
  ELSE InsertBySequence(SortBySequence(SubSeq(s, 1, Len(s) - 1)), s[Len(s)])

DefaultChain(employee) ==
  IF User[employee].manager # NoUser
    THEN <<Step(User[employee].manager, 1)>>
    ELSE <<>>

ManagerSteps(rule, employee) ==
  IF rule.requireManagerApproval /\ User[employee].manager # NoUser
    THEN <<Step(User[employee].manager, 0)>>
    ELSE <<>>

RuleSteps_Unshifted(rule) ==
  [i \in 1..Len(rule.approvers) |->
     Step(rule.approvers[i].user, rule.approvers[i].sequence)]

RuleSteps(rule) ==
  [i \in 1..Len(rule.approvers) |->
     Step(rule.approvers[i].user,
          rule.approvers[i].sequence + (IF rule.requireManagerApproval THEN 1 ELSE 0))]

RuleChain(rule, employee) ==
  SortBySequence(ManagerSteps(rule, employee) \o RuleSteps(rule))

Resolves_RawIds(rule) == TRUE

\* .populate('approvers.user') leaves null where the user is gone, and
\* approver.user._id then throws
Resolves(rule) == \A a \in Range(rule.approvers) : a.user \in users

\* The outcomes determineApprovers can have, each with the rule it used: a
\* chain, or the error it throws (failed).
DetermineApprovers(store, employee, company, amount) ==
  LET found == FoundRules(store, company, amount) IN
  IF found = {}
    THEN {[rule |-> NoRule, approvers |-> DefaultChain(employee), failed |-> FALSE]}
    ELSE {[rule |-> r,
           approvers |-> IF Resolves(r) THEN RuleChain(r, employee) ELSE <<>>,
           failed |-> ~Resolves(r)] : r \in FirstRules(found)}

\* ----------------------------------------------------------- createExpense
InitialStatus_Pending(approvers) ==
  IF Len(approvers) > 0 THEN "pending" ELSE "approved"

InitialStatus(approvers) ==
  IF Len(approvers) > 0 THEN "in_review" ELSE "approved"

InitialLevel(approvers) ==
  IF Len(approvers) > 0 THEN approvers[1].sequence ELSE 0

NewExpense(employee, amount, category, approvers, t) ==
  [employee |-> employee, company |-> User[employee].company, amount |-> amount,
   category |-> category, status |-> InitialStatus(approvers), approvals |-> approvers,
   currentApprovalLevel |-> InitialLevel(approvers), finalApprover |-> NoUser,
   approvedAt |-> IF Len(approvers) > 0 THEN NoDate ELSE t,
   rejectedAt |-> NoDate, rejectionReason |-> NoText]

CreateExpense(employee, amount, category) ==
  /\ now < MaxTime
  /\ Len(expenses) < MaxExpenses
  /\ employee \in users
  /\ \E d \in DetermineApprovers(rules, employee, User[employee].company, amount) :
       IF d.failed
         THEN /\ res' = Response("createExpense", 500, 0)
              /\ UNCHANGED <<expenses, governing, now>>
         ELSE /\ expenses' = Append(expenses, NewExpense(employee, amount, category, d.approvers, now))
              /\ governing' = Append(governing, d.rule)
              /\ res' = Response("createExpense", 201, Len(expenses) + 1)
              /\ Tick
  /\ UNCHANGED <<rules, inflight, overrides, users>>


\* --------------------------------------------------------- expense.save()
\* Mongoose writes the paths whose value the handler changed ($set of the
\* modified paths); every other path keeps what the collection holds by then.
\* The version key guards no write here: no handler changes the length or
\* the order of approvals, so __v is never incremented.
SaveStep(stored, loaded, changed) ==
  [f \in DOMAIN stored |-> IF changed[f] # loaded[f] THEN changed[f] ELSE stored[f]]

SaveDocument(stored, loaded, changed) ==
  [f \in DOMAIN stored |->
     IF f = "approvals"
       THEN [i \in 1..Len(stored.approvals) |->
               SaveStep(stored.approvals[i], loaded.approvals[i], changed.approvals[i])]
       ELSE IF changed[f] # loaded[f] THEN changed[f] ELSE stored[f]]

StepStatuses == {"pending", "approved", "rejected"}   \* approvals.status enum

\* The schema validation save() runs first: every step status is in the enum.
ValidDocument(doc) ==
  \A i \in 1..Len(doc.approvals) : doc.approvals[i].status \in StepStatuses

Request(op, eid, user, loaded, changed) ==
  [op |-> op, eid |-> eid, user |-> user, loaded |-> loaded, changed |-> changed]

\* ---------------------------------------------------------- processApproval
ApprovalIndex_AnyPending(doc, approverId) ==
  LET hits == {i \in 1..Len(doc.approvals) : doc.approvals[i].status = "pending"}
  IN IF hits = {} THEN 0 ELSE Min(hits)

\* findIndex(approval => approver._id == approverId && status === 'pending'),
\* 0 standing for -1
ApprovalIndex(doc, approverId) ==
  LET hits == {i \in 1..Len(doc.approvals) :
                 /\ doc.approvals[i].approver = approverId
                 /\ doc.approvals[i].status = "pending"}
  IN IF hits = {} THEN 0 ELSE Min(hits)

\* .populate('approvals.approver') leaves null where the user is gone, and
\* approval.approver._id throws when findIndex comes to such a step before
\* it has found the caller's pending step
FindIndexThrows(doc, approverId) ==
  \E i \in 1..Len(doc.approvals) :
    /\ doc.approvals[i].approver \notin users
    /\ \A j \in 1..(i - 1) : ~(/\ doc.approvals[j].approver = approverId
                                /\ doc.approvals[j].status = "pending")

\* find((approval, index) => index > approvalIndex && status === 'pending'),
\* 0 standing for undefined
NextPendingApproval(doc, idx) ==
  LET later == {i \in 1..Len(doc.approvals) :
                  i > idx /\ doc.approvals[i].status = "pending"}
  IN IF later = {} THEN 0 ELSE Min(later)

UpdateApproval_Resequence(doc, idx, decision, comments, t) ==
  [doc EXCEPT !.approvals[idx].status = decision,
              !.approvals[idx].comments = comments,
              !.approvals[idx].approvedAt = t,
              !.approvals[idx].sequence = doc.currentApprovalLevel + 1]

UpdateApproval(doc, idx, decision, comments, t) ==
  [doc EXCEPT !.approvals[idx].status = decision,
              !.approvals[idx].comments = comments,
              !.approvals[idx].approvedAt = t]

ProcessApproval_RejectionMovesLevel(doc, idx, approverId, decision, comments, t) ==
  LET upd == UpdateApproval(doc, idx, decision, comments, t)
      next == NextPendingApproval(upd, idx)
  IN IF next = 0
       THEN [upd EXCEPT !.status = decision, !.approvedAt = t,
                        !.finalApprover = approverId]
       ELSE [upd EXCEPT !.status = IF decision = "rejected" THEN decision ELSE @,
                        !.rejectedAt = IF decision = "rejected" THEN t ELSE @,
                        !.rejectionReason = IF decision = "rejected" THEN comments ELSE @,
                        !.currentApprovalLevel = upd.approvals[next].sequence]

ProcessApproval_NextBeforeUpdate(doc, idx, approverId, decision, comments, t) ==
  LET upd == UpdateApproval(doc, idx, decision, comments, t)
      next == NextPendingApproval(doc, idx - 1)
  IN IF decision = "rejected"
       THEN [upd EXCEPT !.status = "rejected", !.rejectedAt = t,
                        !.rejectionReason = comments]
     ELSE IF decision = "approved"
       THEN IF next = 0
              THEN [upd EXCEPT !.status = "approved", !.approvedAt = t,
                               !.finalApprover = approverId]
              ELSE [upd EXCEPT !.currentApprovalLevel = upd.approvals[next].sequence]
     ELSE upd

ProcessApproval(doc, idx, approverId, decision, comments, t) ==
  LET upd == UpdateApproval(doc, idx, decision, comments, t)
      next == NextPendingApproval(upd, idx)
  IN IF decision = "rejected"
       THEN [upd EXCEPT !.status = "rejected", !.rejectedAt = t,
                        !.rejectionReason = comments]
     ELSE IF decision = "approved"
       THEN IF next = 0
              THEN [upd EXCEPT !.status = "approved", !.approvedAt = t,
                               !.finalApprover = approverId]
              ELSE [upd EXCEPT !.currentApprovalLevel = upd.approvals[next].sequence]
     ELSE upd

\* POST /expenses/:id/approve up to the await of expense.save()
ApproveExpense(approver, id, decision, comments) ==
  /\ now < MaxTime
  /\ approver \in users
  /\ IF decision \notin {"approved", "rejected"}
       THEN /\ res' = Response("approveExpense", 400, id)
            /\ UNCHANGED <<inflight, now>>
     ELSE IF id \notin ExpenseIds
       THEN /\ res' = Response("approveExpense", 500, id)
            /\ UNCHANGED <<inflight, now>>
     ELSE IF \/ FindIndexThrows(expenses[id], approver)
             \/ ApprovalIndex(expenses[id], approver) = 0
       THEN /\ res' = Response("approveExpense", 500, id)
            /\ UNCHANGED <<inflight, now>>
     ELSE /\ Cardinality(inflight) < MaxInflight
          /\ inflight' = inflight \cup
               {Request("approveExpense", id, approver, expenses[id],
                        ProcessApproval(expenses[id], ApprovalIndex(expenses[id], approver),
                                        approver, decision, comments, now))}
          /\ Tick
          /\ UNCHANGED res
  /\ UNCHANGED <<rules, expenses, governing, overrides, users>>

\* ---------------------------------------------------------- overrideApproval
OverrideStep(step, t) ==
  IF step.status = "pending"
    THEN [step EXCEPT !.status = "overridden", !.comments = "Overridden by admin",
                      !.approvedAt = t]
    ELSE step

OverrideDocument(doc, admin, decision, comments, t) ==
  LET stamped == IF decision = "approved"
                   THEN [doc EXCEPT !.status = decision, !.finalApprover = admin,
                                    !.approvedAt = t]
                   ELSE [doc EXCEPT !.status = decision, !.finalApprover = admin,
                                    !.rejectedAt = t, !.rejectionReason = comments]
  IN [stamped EXCEPT !.approvals =
        [i \in 1..Len(doc.approvals) |-> OverrideStep(doc.approvals[i], t)]]

\* POST /admin/expenses/:id/override up to the write of expense.save()
OverrideApproval(admin, id, decision, comments) ==
  /\ now < MaxTime
  /\ IF decision \notin {"approved", "rejected"}
       THEN /\ res' = Response("overrideApproval", 400, id)
            /\ UNCHANGED <<inflight, now>>
     ELSE IF id \notin ExpenseIds \/ expenses[id].company # User[admin].company
       THEN /\ res' = Response("overrideApproval", 404, id)
            /\ UNCHANGED <<inflight, now>>
     ELSE IF ~ValidDocument(OverrideDocument(expenses[id], admin, decision, comments, now))
       THEN /\ res' = Response("overrideApproval", 500, id)
            /\ UNCHANGED <<inflight, now>>
     ELSE /\ Cardinality(inflight) < MaxInflight
          /\ inflight' = inflight \cup
               {Request("overrideApproval", id, admin, expenses[id],
                        OverrideDocument(expenses[id], admin, decision, comments, now))}
          /\ Tick
          /\ UNCHANGED res
  /\ UNCHANGED <<rules, expenses, governing, overrides, users>>

\* ------------------------------------------------------------ updateExpense
\* PUT /expenses/:id up to the await of expense.save(): the employee's own
\* expense, and only while its status is 'pending'
UpdateExpense(employee, id, amount) ==
  /\ now < MaxTime
  /\ employee \in users
  /\ IF \/ id \notin ExpenseIds
        \/ expenses[id].employee # employee
        \/ expenses[id].status # "pending"
       THEN /\ res' = Response("updateExpense", 404, id)
            /\ UNCHANGED <<inflight, now>>
       ELSE /\ Cardinality(inflight) < MaxInflight
            /\ inflight' = inflight \cup
                 {Request("updateExpense", id, employee, expenses[id],
                          [expenses[id] EXCEPT !.amount = amount])}
            /\ Tick
            /\ UNCHANGED res
  /\ UNCHANGED <<rules, expenses, governing, overrides, users>>

\* -------------------------------------------------------- getPendingApprovals
\* Expense.find({'approvals.approver': id, 'approvals.status': 'pending',
\*               status: {$in: ['pending', 'in_review']}}): each condition on
\* the array holds when some element meets it
PendingApprovals(approverId) ==
  {id \in ExpenseIds :
     /\ \E i \in 1..Len(expenses[id].approvals) :
          expenses[id].approvals[i].approver = approverId
     /\ \E i \in 1..Len(expenses[id].approvals) :
          expenses[id].approvals[i].status = "pending"
     /\ expenses[id].status \in {"pending", "in_review"}}

\* res.json({expenses, pagination})
Listing(user, ids) ==
  [op |-> "getPendingApprovals", code |-> 200, eid |-> 0, user |-> user, expenses |-> ids]

\* GET /expenses/pending/approvals
GetPendingApprovals(approver) ==
  /\ approver \in users
  /\ res' = Listing(approver, PendingApprovals(approver))
  /\ UNCHANGED <<rules, expenses, inflight, now, governing, overrides, users>>

\* ----------------------------------------------------------------- deleteUser
\* DELETE /users/:id
DeleteUser(admin, id) ==
  /\ now < MaxTime
  /\ IF id \notin users \/ User[id].company # User[admin].company
       THEN /\ res' = Response("deleteUser", 404, 0)
            /\ UNCHANGED <<users, now>>
     ELSE IF User[id].role = "admin"
       THEN /\ res' = Response("deleteUser", 400, 0)
            /\ UNCHANGED <<users, now>>
     ELSE IF \E e \in ExpenseIds : /\ expenses[e].employee = id
                                  /\ expenses[e].status \in {"pending", "in_review"}
       THEN /\ res' = Response("deleteUser", 400, 0)
            /\ UNCHANGED <<users, now>>
     ELSE /\ users' = users \ {id}
          /\ res' = Response("deleteUser", 200, 0)
          /\ Tick
  /\ UNCHANGED <<rules, expenses, inflight, governing, overrides>>

\* await expense.save() of a handler, and its response
Save(req) ==
  /\ expenses' = [expenses EXCEPT ![req.eid] = SaveDocument(@, req.loaded, req.changed)]
  /\ inflight' = inflight \ {req}
  /\ res' = Response(req.op, 200, req.eid)
  /\ overrides' = IF req.op = "overrideApproval" THEN overrides \cup {req.eid} ELSE overrides
  /\ UNCHANGED <<rules, now, governing, users>>

\* ------------------------------------------------------------ specification
Next ==
  \/ \E admin \in Admins, body \in RuleBodies : CreateApprovalRule(admin, body)
  \/ \E admin \in Admins, id \in 1..MaxRules, upd \in RuleUpdates :
       UpdateApprovalRule(admin, id, upd)
  \/ \E admin \in Admins, id \in 1..MaxRules : DeleteApprovalRule(admin, id)
  \/ \E employee \in Submitters, amount \in Amounts, category \in Categories :
       CreateExpense(employee, amount, category)
  \/ \E approver \in Deciders, id \in 1..MaxExpenses, decision \in DecisionInputs,
        comments \in CommentTexts : ApproveExpense(approver, id, decision, comments)
  \/ \E admin \in Admins, id \in 1..MaxExpenses, decision \in DecisionInputs,
        comments \in CommentTexts : OverrideApproval(admin, id, decision, comments)
  \/ \E employee \in Submitters, id \in 1..MaxExpenses, amount \in Amounts :
       UpdateExpense(employee, id, amount)
  \/ \E approver \in Deciders : GetPendingApprovals(approver)
  \/ \E admin \in Admins, id \in UserIds : DeleteUser(admin, id)
  \/ \E req \in inflight : Save(req)

Spec == Init /\ [][Next]_vars

\* Rule and user management and expense submission alone (no decision is
\* taken).
NextResolve ==
  \/ \E admin \in Admins, body \in RuleBodies : CreateApprovalRule(admin, body)
  \/ \E admin \in Admins, id \in 1..MaxRules, upd \in RuleUpdates :
       UpdateApprovalRule(admin, id, upd)
  \/ \E admin \in Admins, id \in 1..MaxRules : DeleteApprovalRule(admin, id)
  \/ \E employee \in Submitters, amount \in Amounts, category \in Categories :
       CreateExpense(employee, amount, category)
  \/ \E admin \in Admins, id \in UserIds : DeleteUser(admin, id)

SpecResolve == Init /\ [][NextResolve]_vars

\* ---------------------------------------------------- notions of the claims
Terminal == {"approved", "rejected"}

Steps(id) == 1..Len(expenses[id].approvals)

Policy(id) == governing[id].type

\* sequential rule, or the no-rule default
SequentialPolicy(id) == Policy(id) = "sequential"

ApprovedCount(id) ==
  Cardinality({i \in Steps(id) : expenses[id].approvals[i].status = "approved"})

NoRejection(id) ==
  \A i \in Steps(id) : expenses[id].approvals[i].status # "rejected"

\* ceil(T/100 * N)
RequiredApprovals(T, N) == (T * N + 99) \div 100

\* the matching of the data model: amount range inclusive, categories and
\* departments empty or containing the expense's
RuleMatches(rule, x) ==
  /\ rule.minAmount <= x.amount
  /\ x.amount <= rule.maxAmount
  /\ (rule.categories = {} \/ x.category \in rule.categories)
  /\ (rule.departments = {} \/ User[x.employee].department \in rule.departments)

MatchingRules(store, x) ==
  {r \in store : r.company = x.company /\ r.isActive /\ RuleMatches(r, x)}

\* the requests whose save this step performs
Saved == inflight \ inflight'

\* the expenses this step creates
Created == DOMAIN expenses' \ DOMAIN expenses

\* ------------------------------------------------------------------ claims

\* C1: a decision submitted for an expense that is already approved or
\* rejected fails: no approveExpense request that loaded a terminal expense
\* gets as far as saving it.
C1_TerminalExpenseRefusesDecision ==
  \A req \in inflight :
    req.op = "approveExpense" => req.loaded.status \notin Terminal

\* C2: of the decisions submitted for one pending step, one wins: a
\* decision is saved only while the stored step is still pending, so a step
\* that has been decided is not written a second time.
C2_OneWinnerPerStep ==
  [][\A req \in Saved :
       req.op = "approveExpense" =>
         expenses[req.eid].approvals[ApprovalIndex(req.loaded, req.user)].status
           = "pending"]_vars

\* C3: under the sequential policy and without an admin override, an
\* expense with at least one step is approved only when all its steps are
\* approved.
C3_SequentialApprovedMeansAllApproved ==
  \A id \in ExpenseIds :
    (/\ SequentialPolicy(id)
     /\ Len(expenses[id].approvals) >= 1
     /\ id \notin overrides
     /\ expenses[id].status = "approved")
    => \A i \in Steps(id) : expenses[id].approvals[i].status = "approved"

\* C4: under the sequential policy no step is decided while a step of a
\* strictly lower sequence is still pending.
C4_SequentialInTurn ==
  \A id \in ExpenseIds :
    (SequentialPolicy(id) /\ id \notin overrides)
    => \A i, j \in Steps(id) :
         (/\ expenses[id].approvals[i].sequence < expenses[id].approvals[j].sequence
          /\ expenses[id].approvals[i].status = "pending")
         => expenses[id].approvals[j].status = "pending"

\* C5: under a percentage rule with threshold T and N steps, without
\* rejection and override, the expense is approved exactly when
\* ceil(T/100 * N) approvals are recorded.
C5_PercentageThreshold ==
  \A id \in ExpenseIds :
    (Policy(id) = "percentage" /\ NoRejection(id) /\ id \notin overrides)
    => (expenses[id].status = "approved"
          <=> ApprovedCount(id) >=
                RequiredApprovals(governing[id].percentageRequired,
                                  Len(expenses[id].approvals)))

\* C6: under a specific_approver or hybrid rule the approval of a listed
\* approver completes the expense at once; under specific_approver the
\* approvals of the others complete it only when every step is approved.
C6_SpecificApproverCompletes ==
  \A id \in ExpenseIds :
    (/\ Policy(id) \in {"specific_approver", "hybrid"}
     /\ NoRejection(id)
     /\ id \notin overrides)
    => LET listed == {i \in Steps(id) :
                        /\ expenses[id].approvals[i].approver
                             \in governing[id].specificApprovers
                        /\ expenses[id].approvals[i].status = "approved"}
       IN /\ listed # {} => expenses[id].status = "approved"
          /\ (/\ Policy(id) = "specific_approver"
              /\ listed = {}
              /\ expenses[id].status = "approved")
             => \A i \in Steps(id) : expenses[id].approvals[i].status = "approved"

\* C7: the chain of a new expense is built from a rule of the highest
\* priority among the active rules of the expense's company whose conditions
\* match the expense, whenever there is such a rule.
C7_HighestPriorityMatchingRule ==
  [][\A id \in Created :
       LET x == expenses'[id]
           matching == MatchingRules(rules, x)
       IN matching # {} =>
            /\ governing'[id] \in matching
            /\ \A q \in matching : q.priority <= governing'[id].priority
            /\ x.approvals = RuleChain(governing'[id], x.employee)]_vars

\* C8: the rule determineApprovers selects matches the expense: amount in
\* [minAmount, maxAmount], categories empty or containing the category,
\* departments empty or containing the employee's department.
C8_SelectedRuleMatches ==
  \A id \in ExpenseIds :
    governing[id] # NoRule => RuleMatches(governing[id], expenses[id])

\* C9: when no active rule matches, the chain is the single pending step of
\* the employee's manager with sequence 0, or empty without a manager, and
\* currentApprovalLevel is that step's sequence.
C9_DefaultChain ==
  [][\A id \in Created :
       LET x == expenses'[id]
           manager == User[x.employee].manager
       IN MatchingRules(rules, x) = {} =>
            IF manager # NoUser
              THEN /\ x.approvals = <<Step(manager, 0)>>
                   /\ x.currentApprovalLevel = 0
              ELSE x.approvals = <<>>]_vars

\* C10: createExpense stores an expense with an empty chain as approved with
\* approvedAt set, and an expense with a non-empty chain as in_review with
\* every step pending; it never stores status pending.
C10_CreateExpenseStatus ==
  [][\A id \in Created :
       LET x == expenses'[id] IN
       /\ x.status # "pending"
       /\ IF x.approvals = <<>>
            THEN x.status = "approved" /\ x.approvedAt # NoDate
            ELSE /\ x.status = "in_review"
                 /\ \A i \in 1..Len(x.approvals) : x.approvals[i].status = "pending"]_vars

\* an auto-approved expense without steps has just been created
C10_Witness ==
  \E id \in ExpenseIds :
       /\ res = Response("createExpense", 201, id)
       /\ expenses[id].approvals = <<>>
       /\ expenses[id].status = "approved"
       /\ expenses[id].approvedAt # NoDate

\* ------------------------------------------------------------------- C11
\* The steps a chain holds for a rule: the manager's step at sequence 0 in
\* front when one is prepended, then one pending step per rule approver with
\* its sequence raised by shift, ascending by sequence, approvers of one
\* sequence in the rule's order.
ChainFollowsRule(chain, rule, employee, shift) ==
  LET prepended == rule.requireManagerApproval /\ User[employee].manager # NoUser
      off == IF prepended THEN 1 ELSE 0
      n == Len(rule.approvers)
  IN /\ Len(chain) = n + off
     /\ \A i \in 1..Len(chain) : chain[i] = Step(chain[i].approver, chain[i].sequence)
     /\ \A i, j \in 1..Len(chain) : i < j => chain[i].sequence <= chain[j].sequence
     /\ prepended => chain[1].approver = User[employee].manager /\ chain[1].sequence = 0
     /\ \E p \in [1..n -> 1..n] :
          /\ \A i, j \in 1..n : i # j => p[i] # p[j]
          /\ \A i \in 1..n :
               /\ chain[off + p[i]].approver = rule.approvers[i].user
               /\ chain[off + p[i]].sequence = rule.approvers[i].sequence + shift
          /\ \A i, j \in 1..n :
               (i < j /\ rule.approvers[i].sequence = rule.approvers[j].sequence)
                 => p[i] < p[j]

\* C11 as stated: when createExpense builds the chain from a rule, the chain
\* is the manager's step at sequence 0 (if the rule requires manager approval
\* and the employee has a manager) followed by the rule's approvers, whose
\* sequences are raised by one exactly when the manager's step was prepended;
\* every step is pending and the chain ascends by sequence.
C11_ShiftOnlyWithManagerStep ==
  [][\A id \in Created :
       governing'[id] # NoRule =>
         LET x == expenses'[id]
             rule == governing'[id]
             prepended == rule.requireManagerApproval /\ User[x.employee].manager # NoUser
         IN ChainFollowsRule(x.approvals, rule, x.employee, IF prepended THEN 1 ELSE 0)]_vars

\* C11 amended: the same chain, with the approvers' sequences raised by one
\* exactly when the rule requires manager approval, whether or not the
\* employee has a manager whose step is prepended.
C11_ShiftWithRequireManagerApproval ==
  [][\A id \in Created :
       governing'[id] # NoRule =>
         LET x == expenses'[id]
             rule == governing'[id]
         IN ChainFollowsRule(x.approvals, rule, x.employee,
                             IF rule.requireManagerApproval THEN 1 ELSE 0)]_vars

\* an employee without manager has submitted under a rule that requires
\* manager approval: no step was prepended and the chain is not empty
C11_Witness ==
  \E id \in ExpenseIds :
    /\ res = Response("createExpense", 201, id)
    /\ governing[id] # NoRule
    /\ governing[id].requireManagerApproval
    /\ User[expenses[id].employee].manager = NoUser
    /\ Len(expenses[id].approvals) = Len(governing[id].approvers)
    /\ Len(expenses[id].approvals) > 0

\* ------------------------------------------------------------------- C12
\* C12: a decision submitted by an approver one of whose steps on the expense
\* is already decided fails, also when the approver holds another step: no
\* such request gets past processApproval's search for a pending step.
C12_DecidedStepRefusesResubmission ==
  \A req \in inflight :
    req.op = "approveExpense" =>
      \A i \in 1..Len(req.loaded.approvals) :
        req.loaded.approvals[i].approver = req.user =>
          req.loaded.approvals[i].status = "pending"

\* ------------------------------------------------------------------- C13
\* C13: an override with decision approved or rejected on an expense of the
\* admin's company succeeds whatever the state of the expense: the only
\* refusals are 400 (decision) and 404 (expense not in the company).
C13_OverrideSucceedsInAnyState ==
  res.op = "overrideApproval" => res.code \in {200, 400, 404}

StatusesOf(doc) == [i \in 1..Len(doc.approvals) |-> doc.approvals[i].status]

\* C15: the status of an expense is a function of its approvals array and its
\* policy, so two states in which an expense has the same step statuses (its
\* approvers, sequences and policy never change) give it the same status: no
\* step of the program changes the status and leaves the step statuses.
C15_StatusFollowsFromApprovals ==
  [][\A id \in ExpenseIds :
       StatusesOf(expenses'[id]) = StatusesOf(expenses[id])
         => expenses'[id].status = expenses[id].status]_vars

\* ------------------------------------------------------------------- C16
\* C16: every step of the program leaves a decided step's status as it is,
\* and the save of a processApproval call changes the status of exactly one
\* step, from pending to approved or rejected.
C16_DecidedStepIsFinal ==
  [][/\ \A id \in ExpenseIds : \A i \in Steps(id) :
          expenses[id].approvals[i].status # "pending"
            => expenses'[id].approvals[i].status = expenses[id].approvals[i].status
     /\ \A req \in Saved :
          req.op = "approveExpense" =>
            \E i \in Steps(req.eid) :
              /\ expenses[req.eid].approvals[i].status = "pending"
              /\ expenses'[req.eid].approvals[i].status \in {"approved", "rejected"}
              /\ \A j \in Steps(req.eid) \ {i} :
                   expenses'[req.eid].approvals[j] = expenses[req.eid].approvals[j]]_vars

\* ------------------------------------------------------------------- C17
ChainOf(doc) ==
  [i \in 1..Len(doc.approvals) |-> <<doc.approvals[i].approver, doc.approvals[i].sequence>>]

\* C17: once createExpense has stored an expense, no step of the program
\* (decisions, overrides, updateExpense, creation, update, deactivation and
\* deletion of rules) changes the list of its (approver, sequence) pairs.
C17_ChainIsFixed ==
  [][\A id \in ExpenseIds :
       /\ id \in DOMAIN expenses'
       /\ ChainOf(expenses'[id]) = ChainOf(expenses[id])]_vars

\* an expense whose rule has since been changed or deleted, and on which a
\* decision has been saved, still has one step per approver of the old rule
C17_Witness ==
  \E id \in ExpenseIds :
    /\ governing[id] # NoRule
    /\ governing[id] \notin rules
    /\ \E i \in Steps(id) : expenses[id].approvals[i].status # "pending"
    /\ \A a \in Range(governing[id].approvers) :
         \E i \in Steps(id) : expenses[id].approvals[i].approver = a.user

\* ------------------------------------------------------------------- C18
PendingSequences(id) ==
  {expenses[id].approvals[i].sequence :
     i \in {j \in Steps(id) : expenses[id].approvals[j].status = "pending"}}

\* C18: while an expense is in_review its currentApprovalLevel is the lowest
\* sequence among its pending steps.
C18_LevelIsLowestPendingSequence ==
  \A id \in ExpenseIds :
    expenses[id].status = "in_review" =>
      /\ PendingSequences(id) # {}
      /\ expenses[id].currentApprovalLevel = Min(PendingSequences(id))

\* ------------------------------------------------------------------- C19
\* the step a processApproval request decided, and what it was asked
DecidedIndex(req) ==
  CHOOSE i \in 1..Len(req.loaded.approvals) :
    req.changed.approvals[i].status # req.loaded.approvals[i].status

DecisionOf(req) == req.changed.approvals[DecidedIndex(req)].status
CommentsOf(req) == req.changed.approvals[DecidedIndex(req)].comments
StampOf(req) == req.changed.approvals[DecidedIndex(req)].approvedAt

\* C19: the save of a rejection by the holder of a pending step, on an expense
\* that is not terminal, sets that step to rejected and the expense to rejected
\* with rejectedAt stamped and rejectionReason the submitted comments, whatever
\* the policy, and leaves the other steps' statuses, currentApprovalLevel,
\* finalApprover and approvedAt as they were.
C19_RejectionEffect ==
  [][\A req \in Saved :
       (/\ req.op = "approveExpense"
        /\ DecisionOf(req) = "rejected"
        /\ expenses[req.eid].status \notin Terminal) =>
         LET old == expenses[req.eid]
             new == expenses'[req.eid]
             idx == DecidedIndex(req)
         IN /\ new.approvals[idx].status = "rejected"
            /\ new.status = "rejected"
            /\ new.rejectedAt = StampOf(req)
            /\ new.rejectedAt # NoDate
            /\ new.rejectionReason = CommentsOf(req)
            /\ \A j \in Steps(req.eid) \ {idx} :
                 new.approvals[j].status = old.approvals[j].status
            /\ new.currentApprovalLevel = old.currentApprovalLevel
            /\ new.finalApprover = old.finalApprover
            /\ new.approvedAt = old.approvedAt]_vars

\* a rejection with comments has just been saved on an expense under a
\* percentage or hybrid rule, after an approval and with a step still pending
C19_Witness ==
  \E id \in ExpenseIds :
    /\ res = Response("approveExpense", 200, id)
    /\ Policy(id) \in {"percentage", "hybrid"}
    /\ expenses[id].status = "rejected"
    /\ expenses[id].rejectedAt # NoDate
    /\ expenses[id].rejectionReason = "no"
    /\ expenses[id].finalApprover = NoUser
    /\ \E i, j, k \in Steps(id) :
         /\ expenses[id].approvals[i].status = "rejected"
         /\ expenses[id].approvals[i].approvedAt = expenses[id].rejectedAt
         /\ expenses[id].approvals[j].status = "pending"
         /\ expenses[id].approvals[k].status = "approved"

\* ------------------------------------------------------------------- C20
\* C20: the save of an approval that moves the expense to approved sets
\* approvedAt and finalApprover (the caller), the caller's step being
\* approved; the save of an approval behind which a step is still pending
\* leaves the expense in_review without finalApprover; the approval of the
\* only step of a chain leaves the expense approved with the caller as
\* finalApprover.
C20_ApprovalStamps ==
  [][\A req \in Saved :
       (req.op = "approveExpense" /\ DecisionOf(req) = "approved") =>
         LET old == expenses[req.eid]
             new == expenses'[req.eid]
             idx == DecidedIndex(req)
         IN /\ (old.status # "approved" /\ new.status = "approved") =>
                 /\ new.approvedAt = StampOf(req)
                 /\ new.approvedAt # NoDate
                 /\ new.finalApprover = req.user
                 /\ new.approvals[idx].approver = req.user
                 /\ new.approvals[idx].status = "approved"
            /\ NextPendingApproval(req.changed, idx) # 0 =>
                 /\ new.status = "in_review"
                 /\ new.finalApprover = NoUser
            /\ Len(old.approvals) = 1 =>
                 /\ new.status = "approved"
                 /\ new.finalApprover = req.user]_vars

\* ------------------------------------------------------------------- C21
\* C21: a step leaves pending only in the save of a processApproval call of
\* the step's own approver or of an admin's override; a processApproval call
\* of a user without pending step on the expense is not accepted, and nothing
\* but a save or a submission changes an expense.
C21_OnlyOwnApproverDecides ==
  [][/\ \A id \in ExpenseIds : \A i \in Steps(id) :
          (/\ expenses[id].approvals[i].status = "pending"
           /\ expenses'[id].approvals[i].status # "pending") =>
            \E req \in Saved :
              /\ req.eid = id
              /\ \/ /\ req.op = "approveExpense"
                    /\ req.user = expenses[id].approvals[i].approver
                 \/ /\ req.op = "overrideApproval"
                    /\ User[req.user].role = "admin"
     /\ \A req \in inflight' \ inflight :
          req.op = "approveExpense" =>
            \E i \in Steps(req.eid) :
              /\ expenses[req.eid].approvals[i].approver = req.user
              /\ expenses[req.eid].approvals[i].status = "pending"
     /\ expenses' # expenses => (Saved # {} \/ Created # {})]_vars

\* an approver's decision has been saved, and the same approver's next call
\* was refused while another step of the chain is still pending
C21_Witness ==
  \E id \in ExpenseIds :
    /\ res = Response("approveExpense", 500, id)
    /\ inflight = {}
    /\ \E i, j \in Steps(id) :
         /\ expenses[id].approvals[i].status = "approved"
         /\ expenses[id].approvals[j].status = "pending"
         /\ expenses[id].approvals[j].approver # expenses[id].approvals[i].approver

\* ------------------------------------------------------------------- C22
\* every referenced approver is a manager or admin of the company
AllValid(approvers, company) ==
  \A a \in Range(approvers) :
    /\ a.user \in users
    /\ User[a.user].company = company
    /\ User[a.user].role \in {"manager", "admin"}

NoneTwice(approvers) ==
  \A i, j \in 1..Len(approvers) : i # j => approvers[i].user # approvers[j].user

\* the requests the two handlers get as far as checking the approvers of
CanCreate == now < MaxTime /\ Cardinality(rules) < MaxRules
CanUpdate(admin, id, upd) ==
  /\ now < MaxTime
  /\ upd.field = "approvers"
  /\ \E r \in rules : r.id = id /\ r.company = User[admin].company

\* C22 as stated: createApprovalRule and updateApprovalRule save the rule when
\* every referenced approver is a manager or admin of the admin's company,
\* also when one of them is listed twice, and otherwise answer 400 and save
\* nothing.
C22_RejectedIffInvalidApprover ==
  /\ \A admin \in Admins, body \in RuleBodies :
       CanCreate =>
         IF AllValid(body.approvers, User[admin].company)
           THEN ENABLED (CreateApprovalRule(admin, body) /\ rules' # rules)
           ELSE /\ ENABLED (/\ CreateApprovalRule(admin, body)
                            /\ res' = Response("createApprovalRule", 400, 0))
                /\ ~ENABLED (CreateApprovalRule(admin, body) /\ rules' # rules)
  /\ \A admin \in Admins, id \in 1..MaxRules, upd \in RuleUpdates :
       CanUpdate(admin, id, upd) =>
         IF AllValid(upd.approvers, User[admin].company)
           THEN ENABLED (/\ UpdateApprovalRule(admin, id, upd)
                         /\ res' = Response("updateApprovalRule", 200, 0))
           ELSE /\ ENABLED (/\ UpdateApprovalRule(admin, id, upd)
                            /\ res' = Response("updateApprovalRule", 400, 0))
                /\ ~ENABLED (UpdateApprovalRule(admin, id, upd) /\ rules' # rules)

\* C22 amended: the two handlers save the rule exactly when every referenced
\* approver is a manager or admin of the admin's company and no user is
\* listed twice; otherwise they answer 400 and save nothing.
C22_RejectedIffInvalidOrListedTwice ==
  /\ \A admin \in Admins, body \in RuleBodies :
       CanCreate =>
         IF AllValid(body.approvers, User[admin].company) /\ NoneTwice(body.approvers)
           THEN ENABLED (CreateApprovalRule(admin, body) /\ rules' # rules)
           ELSE /\ ENABLED (/\ CreateApprovalRule(admin, body)
                            /\ res' = Response("createApprovalRule", 400, 0))
                /\ ~ENABLED (CreateApprovalRule(admin, body) /\ rules' # rules)
  /\ \A admin \in Admins, id \in 1..MaxRules, upd \in RuleUpdates :
       CanUpdate(admin, id, upd) =>
         IF AllValid(upd.approvers, User[admin].company) /\ NoneTwice(upd.approvers)
           THEN ENABLED (/\ UpdateApprovalRule(admin, id, upd)
                         /\ res' = Response("updateApprovalRule", 200, 0))
           ELSE /\ ENABLED (/\ UpdateApprovalRule(admin, id, upd)
                            /\ res' = Response("updateApprovalRule", 400, 0))
                /\ ~ENABLED (UpdateApprovalRule(admin, id, upd) /\ rules' # rules)

\* an update has been answered 400 on a stored rule while a request whose
\* approvers are all valid, one of them listed twice, can be made of it
C22_Witness ==
  /\ res = Response("updateApprovalRule", 400, 0)
  /\ \E admin \in Admins, id \in 1..MaxRules, upd \in RuleUpdates :
       /\ CanUpdate(admin, id, upd)
       /\ AllValid(upd.approvers, User[admin].company)
       /\ ~NoneTwice(upd.approvers)

\* ------------------------------------------------------------------- C23
\* C23: a decision outside {approved, rejected} and a rejection without
\* comments are refused by approveExpense and by overrideApproval before an
\* expense is changed: no request of either handler that carries a rejection
\* without comments gets as far as its save.
C23_RejectionNeedsComments ==
  \A req \in inflight :
    /\ req.op = "approveExpense" =>
         /\ DecisionOf(req) \in {"approved", "rejected"}
         /\ DecisionOf(req) = "rejected" => CommentsOf(req) # NoText
    /\ req.op = "overrideApproval" =>
         /\ req.changed.status \in {"approved", "rejected"}
         /\ (req.changed.status = "rejected" /\ req.changed.rejectedAt # req.loaded.rejectedAt)
              => req.changed.rejectionReason # NoText

\* ------------------------------------------------------------------- C24
\* C24: the chain createExpense stores is the only one determineApprovers can
\* return for that expense, employee and rule store, also when several
\* matching active rules share the highest priority.
C24_DeterministicChain ==
  [][\A id \in Created :
       LET x == expenses'[id] IN
       \A d \in DetermineApprovers(rules, x.employee, x.company, x.amount) :
         ~d.failed /\ d.approvers = x.approvals]_vars

\* ------------------------------------------------------------------- C25
\* C25: no expense is stored with a chain built from a rule one of whose
\* approvers is no longer a user, and the submission that is answered with
\* the error stores nothing.
C25_UnresolvedApproverFailsSubmission ==
  [][/\ \A id \in Created :
          \A a \in Range(governing'[id].approvers) : a.user \in users
     /\ res' = Response("createExpense", 500, 0) => expenses' = expenses]_vars

\* a submission has just failed, nothing is stored, and the rule store holds
\* a rule with an approver who has been deleted
C25_Witness ==
  /\ res = Response("createExpense", 500, 0)
  /\ expenses = <<>>
  /\ \E r \in rules : \E a \in Range(r.approvers) :
       /\ a.user \notin users
       /\ r.isActive
       /\ r.company = "c1"

\* ------------------------------------------------------------------- C26
\* C26: the chain of an expense holds at most one step per user.
C26_OneStepPerUser ==
  \A id \in ExpenseIds : \A i, j \in Steps(id) :
    i # j => expenses[id].approvals[i].approver # expenses[id].approvals[j].approver

\* ------------------------------------------------------------------- C27
\* C27: an expense with a chain in which no step is pending any more is
\* approved or rejected, in whatever order the steps were decided.
C27_DecidedChainIsTerminal ==
  \A id \in ExpenseIds :
    (/\ Steps(id) # {}
     /\ \A i \in Steps(id) : expenses[id].approvals[i].status # "pending")
      => expenses[id].status \in Terminal

\* every step of a chain of several approvers has been approved, a later
\* step before an earlier one
C27_Witness ==
  \E id \in ExpenseIds :
    /\ expenses[id].status \in Terminal
    /\ \A i \in Steps(id) : expenses[id].approvals[i].status = "approved"
    /\ \E i, j \in Steps(id) :
         /\ i < j
         /\ expenses[id].approvals[j].approvedAt < expenses[id].approvals[i].approvedAt

\* ------------------------------------------------------------------- C28
\* C28: an approved expense has approvedAt and neither rejectedAt nor
\* rejectionReason, a rejected expense has rejectedAt and no approvedAt, and
\* no expense has both approvedAt and rejectedAt.
C28_StampsAgreeWithStatus ==
  \A id \in ExpenseIds :
    LET x == expenses[id] IN
    /\ x.status = "approved" =>
         x.approvedAt # NoDate /\ x.rejectedAt = NoDate /\ x.rejectionReason = NoText
    /\ x.status = "rejected" => x.rejectedAt # NoDate /\ x.approvedAt = NoDate
    /\ ~(x.approvedAt # NoDate /\ x.rejectedAt # NoDate)

\* ------------------------------------------------------------------- C29
\* C29: every expense getPendingApprovals lists for an approver is not
\* terminal and has a pending step of that approver.
C29_ListedExpenseAwaitsApprover ==
  res.op = "getPendingApprovals" =>
    \A id \in res.expenses :
      /\ expenses[id].status \notin Terminal
      /\ \E i \in Steps(id) :
           /\ expenses[id].approvals[i].approver = res.user
           /\ expenses[id].approvals[i].status = "pending"

\* ------------------------------------------------------------------- C30
\* C30: on an expense in review, the decision of a user who holds a pending
\* step is accepted, whichever other users have been deleted.
C30_PendingHolderCanDecide ==
  \A id \in ExpenseIds, approver \in Deciders :
    (/\ approver \in users
     /\ expenses[id].status = "in_review"
     /\ \E i \in Steps(id) : /\ expenses[id].approvals[i].approver = approver
                            /\ expenses[id].approvals[i].status = "pending"
     /\ now < MaxTime
     /\ Cardinality(inflight) < MaxInflight)
      => ENABLED (/\ ApproveExpense(approver, id, "approved", NoText)
                  /\ inflight' # inflight)

====
